---- MODULE Spec2Model ----
(***************************************************************************)
(* GridMaps scene extension of the 3D panel                                *)
(* (packages/studio-base/src/panels/ThreeDeeRender/renderables/GridMaps.ts)*)
(*                                                                         *)
(* One renderable per topic holds the last grid_map message, the display   *)
(* settings, a DataTexture (the RGBA raster) and two materials that sample *)
(* it.  Messages and settings actions are handled one at a time, to        *)
(* completion.                                                             *)
(*                                                                         *)
(* Numbers.  The message's lengths and resolution are float64 in the       *)
(* program; here they are small non-negative integers, and every quotient  *)
(* and product the code computes from them is an exact JavaScript number:  *)
(* NaN, Infinity or a non-negative rational.                               *)
(***************************************************************************)
EXTENDS Integers, Sequences, FiniteSets, TLC

\* ------------------------------------------------------------------ bounds
\* a message of resolution 1 has lengths x, y >= 1 with x * y <= MaxCells
MaxCells == 2

\* the cell values the color ramp is applied to are -2..MaxValue
MaxValue == 101

\* an optional value: absent, or present with value v
None == <<>>
Some(v) == <<v>>
IsNone(o) == Len(o) = 0
Get(o) == o[1]
OrElse(o, d) == IF IsNone(o) THEN d ELSE o[1]

\* --------------------------------------------------- JavaScript numbers
NaN == <<"NaN">>
Infinity == <<"Inf">>

RECURSIVE Gcd(_, _)
Gcd(a, b) == IF b = 0 THEN a ELSE Gcd(b, a % b)

\* the finite number n/d (n >= 0, d > 0), in lowest terms
Fin(n, d) == LET g == Gcd(n, d) IN <<"Fin", n \div g, d \div g>>

IsFin(x) == x[1] = "Fin"
IsZero(x) == IsFin(x) /\ x[2] = 0
IsInt(x) == IsFin(x) /\ x[3] = 1

\* a / b for non-negative integers a, b: 0/0 is NaN, a/0 is Infinity
NumDiv(a, b) ==
    IF b = 0 THEN (IF a = 0 THEN NaN ELSE Infinity) ELSE Fin(a, b)

\* x * y: NaN is absorbing, Infinity * 0 is NaN
NumMul(x, y) ==
    IF x = NaN \/ y = NaN THEN NaN
    ELSE IF x = Infinity \/ y = Infinity
         THEN (IF IsZero(x) \/ IsZero(y) THEN NaN ELSE Infinity)
         ELSE Fin(x[2] * y[2], x[3] * y[3])

\* x === y: NaN equals nothing, itself included
NumEq(x, y) == x # NaN /\ y # NaN /\ x = y

\* x < y
NumLt(x, y) ==
    IF x = NaN \/ y = NaN THEN FALSE
    ELSE IF x = Infinity THEN FALSE
    ELSE IF y = Infinity THEN TRUE
    ELSE x[2] * y[3] < y[2] * x[3]

\* ToIndex of the length given to a typed-array constructor: NaN becomes 0, a
\* fraction is dropped, Infinity raises a RangeError
CanAllocate(x) == x # Infinity
ToIndex(x) == IF IsFin(x) THEN x[2] \div x[3] ELSE 0

\* how many i = 0, 1, 2, ... satisfy i < x (x is never Infinity where used)
CountBelow(x) == IF IsFin(x) THEN (x[2] + x[3] - 1) \div x[3] ELSE 0

\* ------------------------------------------------------------ colors
\* A CSS color string is held as the four numbers it spells: the red, green and
\* blue bytes and the alpha in halves (a2 = 1 is alpha 0.5).
DEFAULT_MIN_COLOR_STR == [r |-> 255, g |-> 255, b |-> 255, a2 |-> 2]
DEFAULT_MAX_COLOR_STR == [r |-> 0, g |-> 0, b |-> 0, a2 |-> 2]
DEFAULT_UNKNOWN_COLOR_STR == [r |-> 127, g |-> 127, b |-> 127, a2 |-> 2]
DEFAULT_INVALID_COLOR_STR == [r |-> 255, g |-> 0, b |-> 255, a2 |-> 2]

ColorFields == {"minColor", "maxColor", "unknownColor", "invalidColor"}

DEFAULT_SETTINGS ==
    [visible |-> FALSE, frameLocked |-> FALSE,
     minColor |-> DEFAULT_MIN_COLOR_STR, maxColor |-> DEFAULT_MAX_COLOR_STR,
     unknownColor |-> DEFAULT_UNKNOWN_COLOR_STR,
     invalidColor |-> DEFAULT_INVALID_COLOR_STR]

\* { ...DEFAULT_SETTINGS, ...settings }: a field the user configuration lacks
\* keeps its default
MergeSettings(userSettings) ==
    [f \in DOMAIN DEFAULT_SETTINGS |->
        OrElse(userSettings[f], DEFAULT_SETTINGS[f])]

\* a topic without any saved configuration
NoUserSettings == [f \in DOMAIN DEFAULT_SETTINGS |-> None]

\* stringToRgba: the color's channels as numbers in [0, 1]
stringToRgba(str) ==
    [r |-> Fin(str.r, 255), g |-> Fin(str.g, 255), b |-> Fin(str.b, 255),
     a |-> Fin(str.a2, 2)]

\* SRGBToLinear of a channel, in millionths, for the channel values in use
SRGBToLinearMicro(c) ==
    CASE c = Fin(0, 1) -> 0
      [] c = Fin(127, 255) -> 212231
      [] c = Fin(1, 2) -> 214041
      [] c = Fin(1, 1) -> 1000000

srgbToLinearUint8(color) ==
    [r |-> (SRGBToLinearMicro(color.r) * 255) \div 1000000,
     g |-> (SRGBToLinearMicro(color.g) * 255) \div 1000000,
     b |-> (SRGBToLinearMicro(color.b) * 255) \div 1000000,
     a |-> (color.a[2] * 255) \div color.a[3]]

\* The four module-level scratch colors after the stringToRgba calls.  Every
\* function that reads the scratch colors first writes all four of them from
\* the settings it is given, so that what they held before is never read: they
\* are values of the call, not state.
ParsedColors(settings) ==
    [tempMinColor |-> stringToRgba(settings.minColor),
     tempMaxColor |-> stringToRgba(settings.maxColor),
     tempUnknownColor |-> stringToRgba(settings.unknownColor),
     tempInvalidColor |-> stringToRgba(settings.invalidColor)]

\* ... and after the srgbToLinearUint8 calls that updateTexture adds
LinearColors(settings) ==
    [n \in DOMAIN ParsedColors(settings) |->
        srgbToLinearUint8(ParsedColors(settings)[n])]

occupancyGridHasTransparency(settings) ==
    LET t == ParsedColors(settings)
    IN  \/ NumLt(t.tempMinColor.a, Fin(1, 1))
        \/ NumLt(t.tempMaxColor.a, Fin(1, 1))
        \/ NumLt(t.tempInvalidColor.a, Fin(1, 1))
        \/ NumLt(t.tempUnknownColor.a, Fin(1, 1))

\* the value a Uint8ClampedArray element takes when n/d (n >= 0) is stored
\* in it: clamped to 0..255 and rounded to the nearest integer, ties to even
ToUint8Clamp(n, d) ==
    LET f == n \div d
        r == n % d
        rounded == IF 2 * r < d THEN f
                   ELSE IF 2 * r > d THEN f + 1
                   ELSE IF f % 2 = 0 THEN f ELSE f + 1
    IN  IF rounded > 255 THEN 255 ELSE rounded

Channels == <<"r", "g", "b", "a">>

\* (variant: the value 100 is interpolated as the values below it are)
RampByteInterpolatingFull(value, c, colors) ==
    LET ch == Channels[c]
        lo == colors.tempMinColor[ch]
        hi == colors.tempMaxColor[ch]
    IN  IF value = -1 THEN colors.tempUnknownColor[ch]
        ELSE IF value >= 0 /\ value <= 100
             THEN ToUint8Clamp(lo * 100 + (hi - lo) * value, 100)
             ELSE colors.tempInvalidColor[ch]

\* the byte updateTexture stores for cell value `value` in channel c (1..4),
\* colors being the linear scratch colors
RampByte(value, c, colors) ==
    LET ch == Channels[c]
        lo == colors.tempMinColor[ch]
        hi == colors.tempMaxColor[ch]
    IN  IF value = -1 THEN colors.tempUnknownColor[ch]
        ELSE IF value >= 0 /\ value <= 100
             THEN IF value = 100 THEN 0
                  ELSE ToUint8Clamp(lo * 100 + (hi - lo) * value, 100)
             ELSE colors.tempInvalidColor[ch]

\* ---------------------------------------------------------- messages
IdentityPose ==
    [position |-> [x |-> 0, y |-> 0, z |-> 0],
     orientation |-> [x |-> 0, y |-> 0, z |-> 0, w |-> 1]]

\* normalizeHeader, normalizePose: an absent header is the zero time and the
\* empty frame id, an absent pose the identity
normalizeHeader(header) ==
    OrElse(header, [frame_id |-> "", stamp |-> [sec |-> 0, nsec |-> 0]])

normalizePose(pose) == OrElse(pose, IdentityPose)

\* one Float32MultiArray of the message, made strict
normalizeFloat32MultiArray(layer) ==
    [layout |-> [dim |-> OrElse(layer.layout, [dim |-> <<>>]).dim],
     data |-> OrElse(layer.data, <<>>)]

\* message.data.map(...) raises a TypeError when the message has no data
CanNormalize(message) == ~IsNone(message.data)

\* info = message.info ?? {}
normalizeGridMap(message) ==
    LET info == OrElse(message.info,
                       [resolution |-> None, length_x |-> None,
                        length_y |-> None, pose |-> None])
    IN  [header |-> normalizeHeader(message.header),
         info |-> [resolution |-> OrElse(info.resolution, 0),
                   length_x |-> OrElse(info.length_x, 0),
                   length_y |-> OrElse(info.length_y, 0),
                   pose |-> normalizePose(info.pose)],
         data |-> [i \in 1..Len(Get(message.data)) |->
                      normalizeFloat32MultiArray(Get(message.data)[i])]]

toNanoSec(time) == time.sec * 1000000000 + time.nsec

\* renderer.normalizeFrameId is not interpreted: the frame id is kept with
\* the mark of having gone through it
normalizeFrameId(frame_id) == <<"normalizeFrameId", frame_id>>

\* height, width and size as the code computes them from a grid map
GridHeight(gridMap) == NumDiv(gridMap.info.length_x, gridMap.info.resolution)
GridWidth(gridMap) == NumDiv(gridMap.info.length_y, gridMap.info.resolution)
GridSize(gridMap) == NumMul(GridWidth(gridMap), GridHeight(gridMap))

\* The messages fed to the extension.  The info of a message is one of
\*   - absent (the message then has no header either): every number is 0,
\*   - of resolution 1 and lengths x, y with x * y <= MaxCells,
\*   - of lengths 1 and a resolution that is absent (0), or 2 (half a cell),
\* and its data one of
\*   "absent"  no data field at all
\*   "none"    no layer
\*   "packed"  one layer of dimensions (length_x * length_y, 0)
\*   "flat"    one layer of the single dimension (length_x * length_y)
\*   "two"     the "packed" layer followed by the "flat" layer
\* The cells of every layer hold -1.  LayerKinds are the kinds of data fed
\* with every info; a message without data is fed without info only.
LayerKinds == {"none", "packed", "flat"}

InfoShapes ==
    {None}
    \cup {Some([resolution |-> Some(1), length_x |-> xy[1], length_y |-> xy[2]]) :
             xy \in {c \in (1..MaxCells) \X (1..MaxCells) : c[1] * c[2] <= MaxCells}}
    \cup {Some([resolution |-> r, length_x |-> 1, length_y |-> 1]) :
             r \in {None, Some(2)}}

StampedHeader == [frame_id |-> "map", stamp |-> [sec |-> 0, nsec |-> 5]]
MovedPose ==
    [position |-> [x |-> 1, y |-> 0, z |-> 0],
     orientation |-> [x |-> 0, y |-> 0, z |-> 0, w |-> 1]]

RawLayer(sizes, cells) ==
    [layout |-> Some([dim |-> [i \in 1..Len(sizes) |-> [size |-> sizes[i]]]]),
     data |-> Some([i \in 1..cells |-> -1])]

RawMessage(shape, kind) ==
    LET cells == IF IsNone(shape) THEN 0
                 ELSE Get(shape).length_x * Get(shape).length_y
        packed == RawLayer(<<cells, 0>>, cells)
        flat == RawLayer(<<cells>>, cells)
    IN  [header |-> IF IsNone(shape) THEN None ELSE Some(StampedHeader),
         info |-> IF IsNone(shape) THEN None
                  ELSE Some([resolution |-> Get(shape).resolution,
                             length_x |-> Some(Get(shape).length_x),
                             length_y |-> Some(Get(shape).length_y),
                             pose |-> Some(MovedPose)]),
         data |-> CASE kind = "absent" -> None
                    [] kind = "none" -> Some(<<>>)
                    [] kind = "packed" -> Some(<<packed>>)
                    [] kind = "flat" -> Some(<<flat>>)
                    [] kind = "two" -> Some(<<packed, flat>>)]

RawMessages ==
    {RawMessage(sh, k) : sh \in InfoShapes, k \in LayerKinds}
    \cup {RawMessage(None, "absent")}

\* a message is received one tick after it was stamped
ReceiveTimeOf(message) ==
    [sec |-> 0, nsec |-> normalizeHeader(message.header).stamp.nsec + 1]

\* ------------------------------------------------------------- state
Topics == {"A", "B"}

VARIABLES
    renderables,  \* this.renderables: topic -> the renderable's userData, if any
    textures,     \* the DataTextures alive: id -> texture
    config,       \* renderer.config.topics: topic -> the saved settings
    errors,       \* renderer.settings.errors: topic -> the INVALID_GRID_MAP error
    ops           \* what the last handler call did, in order

vars == <<renderables, textures, config, errors, ops>>

\* the part of the state the handlers thread through their calls
World == [renderables |-> renderables, textures |-> textures,
          errors |-> errors, ops |-> ops]

Did(w, event) == [w EXCEPT !.ops = Append(@, event)]

\* a new texture of a topic gets the first identity <<topic, n>> that no live
\* texture has
FreshId(texs, topic) ==
    LET n == CHOOSE i \in 1..(Cardinality(DOMAIN texs) + 1) :
                 /\ <<topic, i>> \notin DOMAIN texs
                 /\ \A j \in 1..(i - 1) : <<topic, j>> \in DOMAIN texs
    IN  <<topic, n>>

\* ------------------------------------------------------------ textures
\* new Uint8ClampedArray(size * 4) raises a RangeError for an infinite size
CanCreateTexture(gridMap) == CanAllocate(NumMul(GridSize(gridMap), Fin(4, 1)))

createTexture(gridMap) ==
    [disposed |-> FALSE,
     width |-> GridWidth(gridMap),
     height |-> GridHeight(gridMap),
     data |-> [k \in 1..ToIndex(NumMul(GridSize(gridMap), Fin(4, 1))) |-> 0]]

\* data[i] | 0, data being the array of layers: an element is a layer object or
\* undefined, ToNumber of either is NaN, and NaN | 0 is 0
LayerToInt32(layer) == 0
ElementToInt32(data, i) == IF i < Len(data) THEN LayerToInt32(data[i + 1]) ELSE 0

\* the buffer after updateTexture's loop: cell i < size is written at bytes
\* 4i..4i+3; a write past the end of the buffer is dropped
updateTexture(texture, gridMap, settings) ==
    LET cells == CountBelow(GridSize(gridMap))
        colors == LinearColors(settings)
    IN  [texture EXCEPT !.data =
            [k \in 1..Len(texture.data) |->
                IF (k - 1) \div 4 < cells
                THEN RampByte(ElementToInt32(gridMap.data, (k - 1) \div 4),
                              ((k - 1) % 4) + 1, colors)
                ELSE texture.data[k]]]

createMaterial(textureId, settings) ==
    [map |-> textureId,
     transparent |-> occupancyGridHasTransparency(settings),
     depthWrite |-> ~occupancyGridHasTransparency(settings)]

createPickingMaterial(textureId) == [map |-> textureId]

\* --------------------------------------------------------- validation
\* (variant: the size of a layer is checked before the number of its
\* dimensions)
LayerErrorSizeFirst(layer, size) ==
    LET sum[i \in 0..Len(layer.layout.dim)] ==
            IF i = 0 THEN 0 ELSE sum[i - 1] + layer.layout.dim[i].size
    IN  IF ~NumEq(Fin(sum[Len(layer.layout.dim)], 1), size) THEN "size"
        ELSE IF Len(layer.layout.dim) < 2 THEN "dimensions" ELSE "ok"

\* the check of one layer against the size of the grid
LayerError(layer, size) ==
    IF Len(layer.layout.dim) < 2 THEN "dimensions"
    ELSE LET sum[i \in 0..Len(layer.layout.dim)] ==
                 IF i = 0 THEN 0 ELSE sum[i - 1] + layer.layout.dim[i].size
         IN  IF ~NumEq(Fin(sum[Len(layer.layout.dim)], 1), size)
             THEN "size" ELSE "ok"

\* the error of the first layer that fails, "ok" when none does
ShapeError(gridMap) ==
    LET failing == {i \in 1..Len(gridMap.data) :
                       LayerError(gridMap.data[i], GridSize(gridMap)) # "ok"}
    IN  IF failing = {} THEN "ok"
        ELSE LayerError(gridMap.data[CHOOSE i \in failing :
                                         \A j \in failing : i <= j],
                        GridSize(gridMap))

\* (variant: the error is added to every topic)
invalidGridMapErrorEverywhere(w, topic, message) ==
    Did([w EXCEPT !.errors = [t \in Topics |-> Some(message)]],
        <<"addToTopic", message>>)

invalidGridMapError(w, topic, message) ==
    Did([w EXCEPT !.errors[topic] = Some(message)], <<"addToTopic", message>>)

\* ------------------------------------------------- the update of a topic
Threw(w) == Len(w.ops) > 0 /\ w.ops[Len(w.ops)][1] = "throw"

\* lines 224-228: the message is stored in the renderable
StoreGridMap(w, topic, gridMap, receiveTime) ==
    [w EXCEPT !.renderables[topic] = Some(
        [Get(@) EXCEPT !.gridMap = gridMap,
                       !.pose = gridMap.info.pose,
                       !.receiveTime = receiveTime,
                       !.messageTime = toNanoSec(gridMap.header.stamp),
                       !.frameId = normalizeFrameId(gridMap.header.frame_id)])]

\* (variant: the texture that is replaced is not disposed of)
RegenerateWithoutDispose(w, topic, gridMap) ==
    LET r == Get(w.renderables[topic])
        texture == w.textures[r.texture]
        id == FreshId(w.textures, topic)
    IN  IF \/ ~NumEq(GridWidth(gridMap), texture.width)
           \/ ~NumEq(GridHeight(gridMap), texture.height)
        THEN IF ~CanCreateTexture(gridMap) THEN Did(w, <<"throw", "RangeError">>)
             ELSE Did([w EXCEPT
                         !.textures = [i \in DOMAIN @ \cup {id} |->
                             IF i = id THEN createTexture(gridMap) ELSE @[i]],
                         !.renderables[topic] = Some(
                             [r EXCEPT !.texture = id, !.material.map = id])],
                      <<"createTexture">>)
        ELSE w

\* lines 253-259: a texture of other dimensions than the grid is disposed of
\* and replaced
RegenerateTexture(w, topic, gridMap) ==
    LET r == Get(w.renderables[topic])
        texture == w.textures[r.texture]
    IN  IF \/ ~NumEq(GridWidth(gridMap), texture.width)
           \/ ~NumEq(GridHeight(gridMap), texture.height)
        THEN LET w1 == Did([w EXCEPT !.textures[r.texture].disposed = TRUE],
                           <<"dispose">>)
                 id == FreshId(w1.textures, topic)
             IN  IF ~CanCreateTexture(gridMap) THEN Did(w1, <<"throw", "RangeError">>)
                 ELSE Did([w1 EXCEPT
                             !.textures = [i \in DOMAIN @ \cup {id} |->
                                 IF i = id THEN createTexture(gridMap)
                                 ELSE @[i]],
                             !.renderables[topic] = Some(
                                 [r EXCEPT !.texture = id, !.material.map = id])],
                          <<"createTexture">>)
        ELSE w

\* (variant: a successful update removes the error of the topic)
RecolorAndClearError(w, topic, gridMap) ==
    LET r == Get(w.renderables[topic])
        resolution == Fin(gridMap.info.resolution, 1)
    IN  Did([w EXCEPT
               !.textures[r.texture] = updateTexture(@, gridMap, r.settings),
               !.errors[topic] = None,
               !.renderables[topic] = Some(
                   [r EXCEPT !.scale = <<NumMul(resolution, GridWidth(gridMap)),
                                         NumMul(resolution, GridHeight(gridMap))>>])],
            <<"updateTexture">>)

\* lines 261-264: the texture is recolored and the renderable scaled
RecolorAndScale(w, topic, gridMap) ==
    LET r == Get(w.renderables[topic])
        resolution == Fin(gridMap.info.resolution, 1)
    IN  Did([w EXCEPT
               !.textures[r.texture] = updateTexture(@, gridMap, r.settings),
               !.renderables[topic] = Some(
                   [r EXCEPT !.scale = <<NumMul(resolution, GridWidth(gridMap)),
                                         NumMul(resolution, GridHeight(gridMap))>>])],
            <<"updateTexture">>)

ErrorMessage(error) ==
    IF error = "dimensions" THEN "GridMap layer is has the wrong number of dimensions"
    ELSE "GridMap layer is not equal to width * height"

\* (variant: the texture is regenerated and recolored before the layers are
\* checked)
_updateBeforeValidating(w, topic, gridMap, receiveTime) ==
    LET w1 == StoreGridMap(w, topic, gridMap, receiveTime)
        w2 == RegenerateTexture(w1, topic, gridMap)
        w3 == IF Threw(w2) THEN w2 ELSE RecolorAndScale(w2, topic, gridMap)
    IN  IF ShapeError(gridMap) # "ok" /\ ~Threw(w3)
        THEN invalidGridMapError(w3, topic, ErrorMessage(ShapeError(gridMap)))
        ELSE w3

\* (variant: a topic that has an error is not updated any more)
_updateUnlessFailedBefore(w, topic, gridMap, receiveTime) ==
    LET w1 == StoreGridMap(w, topic, gridMap, receiveTime)
    IN  IF ShapeError(gridMap) # "ok"
        THEN invalidGridMapError(w1, topic, ErrorMessage(ShapeError(gridMap)))
        ELSE IF ~IsNone(w.errors[topic]) THEN w1
        ELSE LET w2 == RegenerateTexture(w1, topic, gridMap)
             IN  IF Threw(w2) THEN w2 ELSE RecolorAndScale(w2, topic, gridMap)

_updateGridMapRenderable(w, topic, gridMap, receiveTime) ==
    LET w1 == StoreGridMap(w, topic, gridMap, receiveTime)
    IN  IF ShapeError(gridMap) # "ok"
        THEN invalidGridMapError(w1, topic, ErrorMessage(ShapeError(gridMap)))
        ELSE LET w2 == RegenerateTexture(w1, topic, gridMap)
             IN  IF Threw(w2) THEN w2 ELSE RecolorAndScale(w2, topic, gridMap)

\* lines 179-214: the renderable of a topic seen for the first time
CreateRenderable(w, userSettings, topic, gridMap, receiveTime) ==
    LET settings == MergeSettings(userSettings)
        id == FreshId(w.textures, topic)
    IN  IF ~CanCreateTexture(gridMap) THEN Did(w, <<"throw", "RangeError">>)
        ELSE Did([w EXCEPT
                    !.textures = [i \in DOMAIN @ \cup {id} |->
                        IF i = id THEN createTexture(gridMap) ELSE @[i]],
                    !.renderables[topic] = Some(
                        [receiveTime |-> receiveTime,
                         messageTime |-> toNanoSec(gridMap.header.stamp),
                         frameId |-> normalizeFrameId(gridMap.header.frame_id),
                         pose |-> gridMap.info.pose,
                         settings |-> settings,
                         topic |-> topic,
                         gridMap |-> gridMap,
                         texture |-> id,
                         material |-> createMaterial(id, settings),
                         pickingMaterial |-> createPickingMaterial(id),
                         scale |-> <<Fin(1, 1), Fin(1, 1)>>])],
                 <<"createTexture">>)

handleOccupancyGrid(w, userSettings, messageEvent) ==
    LET topic == messageEvent.topic
        gridMap == normalizeGridMap(messageEvent.message)
        receiveTime == toNanoSec(messageEvent.receiveTime)
    IN  IF ~CanNormalize(messageEvent.message) THEN Did(w, <<"throw", "TypeError">>)
        ELSE LET w1 == IF IsNone(w.renderables[topic])
                       THEN CreateRenderable(w, userSettings, topic, gridMap,
                                             receiveTime)
                       ELSE w
             IN  IF Threw(w1) THEN w1
                 ELSE _updateGridMapRenderable(w1, topic, gridMap, receiveTime)

\* (variant: the flags of the material are left as they were created)
UpdateSettingsKeepingFlags(w, userSettings, topicName) ==
    IF IsNone(w.renderables[topicName]) THEN w
    ELSE LET r == Get(w.renderables[topicName])
             w1 == [w EXCEPT !.renderables[topicName] = Some(
                                 [r EXCEPT !.settings = MergeSettings(userSettings)])]
         IN  _updateGridMapRenderable(w1, topicName, r.gridMap, r.receiveTime)

\* lines 148-170, after the setting was saved: userSettings is the saved
\* configuration of the topic
UpdateSettings(w, userSettings, topicName) ==
    IF IsNone(w.renderables[topicName]) THEN w
    ELSE LET r == Get(w.renderables[topicName])
             prevTransparent == occupancyGridHasTransparency(r.settings)
             settings == MergeSettings(userSettings)
             newTransparent == occupancyGridHasTransparency(settings)
             material == IF prevTransparent # newTransparent
                         THEN [r.material EXCEPT !.transparent = newTransparent,
                                                 !.depthWrite = ~newTransparent]
                         ELSE r.material
             w1 == [w EXCEPT !.renderables[topicName] = Some(
                                 [r EXCEPT !.settings = settings,
                                           !.material = material])]
             w2 == IF prevTransparent # newTransparent
                   THEN Did(w1, <<"material.needsUpdate">>) ELSE w1
         IN  _updateGridMapRenderable(w2, topicName, r.gridMap, r.receiveTime)

\* GridMapRenderable.dispose and the removal of the renderable
disposeRenderable(w, topic) ==
    LET r == Get(w.renderables[topic])
    IN  Did([w EXCEPT !.textures[r.texture].disposed = TRUE,
                      !.renderables[topic] = None],
            <<"dispose">>)

\* a texture that was disposed of and that nothing refers to any more is gone
Referenced(rs) ==
    UNION {IF IsNone(rs[t]) THEN {}
           ELSE {Get(rs[t]).texture, Get(rs[t]).material.map,
                 Get(rs[t]).pickingMaterial.map} : t \in Topics}

Current(rs) ==
    UNION {IF IsNone(rs[t]) THEN {}
           ELSE {Get(rs[t]).texture, Get(rs[t]).material.map} : t \in Topics}

\* (of a disposed texture that only a picking material still refers to nothing
\* is read again: its image is dropped)
Collect(w) ==
    [w EXCEPT !.textures =
        [i \in {j \in DOMAIN @ : ~@[j].disposed \/ j \in Referenced(w.renderables)}
            |-> IF @[i].disposed /\ i \notin Current(w.renderables)
                THEN [@[i] EXCEPT !.width = NaN, !.height = NaN, !.data = <<>>]
                ELSE @[i]]]

\* ------------------------------------------------------------ actions
Init ==
    /\ renderables = [t \in Topics |-> None]
    /\ textures = [i \in {} |-> None]
    /\ config = [t \in Topics |-> NoUserSettings]
    /\ errors = [t \in Topics |-> None]
    /\ ops = <<>>

Started(handler, topic) == [World EXCEPT !.ops = <<<<handler, topic>>>>]

\* the state after a handler call that ended in world `result`
Becomes(result) ==
    \E w \in {Collect(result)} :
        /\ renderables' = w.renderables
        /\ textures' = w.textures
        /\ errors' = w.errors
        /\ ops' = w.ops

\* a message arrives on a topic
HandleMessage(messageEvent) ==
    /\ Becomes(handleOccupancyGrid(
                   Started("handleOccupancyGrid", messageEvent.topic),
                   config[messageEvent.topic], messageEvent))
    /\ UNCHANGED config

\* this.saveSetting(path, value): the value is stored in the configuration
\* at ["topics", topic, field]
saveSetting(cfg, path, value) == [cfg EXCEPT ![path[2]][path[3]] = Some(value)]

\* the user edits a node of the settings tree
HandleSettingsAction(action) ==
    LET path == action.payload.path
    IN  IF action.action # "update" \/ Len(path) # 3
        THEN /\ ops' = <<<<"handleSettingsAction", path[2]>>>>
             /\ UNCHANGED <<renderables, textures, config, errors>>
        ELSE /\ config' = saveSetting(config, path, action.payload.value)
             /\ Becomes(UpdateSettings(Started("handleSettingsAction", path[2]),
                                       config'[path[2]], path[2]))

\* the renderable of a topic is removed from the scene
RemoveRenderable(topic) ==
    /\ ~IsNone(renderables[topic])
    /\ Becomes(disposeRenderable(Started("removeRenderable", topic), topic))
    /\ UNCHANGED config

\* ------------------------------------------------------- specifications
HalfRed == [r |-> 255, g |-> 0, b |-> 0, a2 |-> 1]
ColorValues == {DEFAULT_MIN_COLOR_STR, HalfRed}

MessageEvents(topics, messages) ==
    {[topic |-> t, message |-> m, receiveTime |-> ReceiveTimeOf(m)] :
        t \in topics, m \in messages}

SettingsActions(topics, fields) ==
    {[action |-> "update",
      payload |-> [path |-> <<"topics", t, f>>, value |-> v]] :
        t \in topics, f \in fields, v \in ColorValues}
    \cup
    {[action |-> a, payload |-> [path |-> p, value |-> HalfRed]] :
        a \in {"perform-node-action"}, p \in {<<"topics", t, "minColor">> : t \in topics}}
    \cup
    {[action |-> "update", payload |-> [path |-> <<"topics", t>>, value |-> HalfRed]] :
        t \in topics}

\* Spec: one topic, every message, the min color
SpecFields == {"minColor"}

Message == \E e \in MessageEvents({"A"}, RawMessages) : HandleMessage(e)
Settings == \E a \in SettingsActions({"A"}, SpecFields) : HandleSettingsAction(a)
Remove == RemoveRenderable("A")

Next == Message \/ Settings \/ Remove

Spec == Init /\ [][Next]_vars

\* SpecTwo: two topics, the messages of one cell, without layers or with a
\* flat one, the min color
TwoTopicMessages ==
    {RawMessage(Some([resolution |-> Some(1), length_x |-> 1, length_y |-> 1]), k) :
        k \in {"none", "flat"}}

MessageTwo == \E e \in MessageEvents(Topics, TwoTopicMessages) : HandleMessage(e)
SettingsTwo == \E a \in SettingsActions(Topics, SpecFields) : HandleSettingsAction(a)
RemoveTwo == \E t \in Topics : RemoveRenderable(t)

NextTwo == MessageTwo \/ SettingsTwo \/ RemoveTwo

SpecTwo == Init /\ [][NextTwo]_vars

\* SpecColors: one topic, the messages of one cell, without layers or with a
\* flat one, the four colors
ColorMessages == TwoTopicMessages

MessageColors == \E e \in MessageEvents({"A"}, ColorMessages) : HandleMessage(e)
SettingsColors == \E a \in SettingsActions({"A"}, ColorFields) : HandleSettingsAction(a)
RemoveColors == RemoveRenderable("A")

NextColors == MessageColors \/ SettingsColors \/ RemoveColors

SpecColors == Init /\ [][NextColors]_vars

\* SpecRamp: the body of updateTexture's loop (lines 347-375) on the one cell
\* of a texture, for every int32 value of the cell and the min and max colors
\* of RampColors, the texture being new; the settings are those saved for
\* topic "A"
CellValues == (-2)..MaxValue
RampColors ==
    {DEFAULT_MIN_COLOR_STR, DEFAULT_MAX_COLOR_STR, DEFAULT_UNKNOWN_COLOR_STR, HalfRed}

OneCellGrid ==
    normalizeGridMap(
        RawMessage(Some([resolution |-> Some(1), length_x |-> 1, length_y |-> 1]),
                   "none"))

WriteCell(value, minColor, maxColor) ==
    LET saved == [NoUserSettings EXCEPT !.minColor = Some(minColor),
                                        !.maxColor = Some(maxColor)]
        colors == LinearColors(MergeSettings(saved))
        texture == createTexture(OneCellGrid)
    IN  /\ textures = <<>>
        /\ config' = [config EXCEPT !["A"] = saved]
        /\ textures' = [i \in {<<"A", 1>>} |->
                           [texture EXCEPT !.data =
                               [k \in 1..Len(texture.data) |->
                                   RampByte(value, k, colors)]]]
        /\ ops' = <<<<"updateTexture", value>>>>
        /\ UNCHANGED <<renderables, errors>>

NextRamp ==
    \E value \in CellValues : \E minColor \in RampColors : \E maxColor \in RampColors :
        WriteCell(value, minColor, maxColor)

SpecRamp == Init /\ [][NextRamp]_vars

\* SpecLayers: one topic, messages of a grid of 2 x 2 cells or without info,
\* with up to two layers, each of the dimensions of one of LayerDims
LayerDims == {<<>>, <<4>>, <<2, 2>>, <<4, 1>>, <<1, 1, 2>>}
LayerLists ==
    {<<>>} \cup {<<d>> : d \in LayerDims}
    \cup {<<d, e>> : d \in LayerDims, e \in LayerDims}

LayeredMessage(shape, dims) ==
    [RawMessage(shape, "none") EXCEPT
        !.data = Some([i \in 1..Len(dims) |->
                          RawLayer(dims[i], IF IsNone(shape) THEN 0
                                            ELSE Get(shape).length_x
                                                 * Get(shape).length_y)])]

LayeredMessages ==
    {LayeredMessage(sh, dims) :
        sh \in {None, Some([resolution |-> Some(1), length_x |-> 2, length_y |-> 2])},
        dims \in LayerLists}

MessageLayers == \E e \in MessageEvents({"A"}, LayeredMessages) : HandleMessage(e)
RemoveLayers == RemoveRenderable("A")

NextLayers == MessageLayers \/ RemoveLayers

SpecLayers == Init /\ [][NextLayers]_vars

\* ------------------------------------------------------------ properties
\* what the last handler call was and did
LastCall(o, handler, topic) == Len(o) > 0 /\ o[1] = <<handler, topic>>
Has(o, event) == \E i \in 2..Len(o) : o[i][1] = event
Rejected(o) == Has(o, "addToTopic")

\* the texture of a topic that has a renderable
TextureOf(rs, texs, t) == texs[Get(rs[t]).texture]

\* C1: a message that fails the shape validation, arriving on a topic that has
\* a renderable, leaves the raster of the topic as it was: the same texture,
\* of the same width and height, holding the same bytes, not disposed of and
\* not marked as needing an upload.
C1_RejectedMessageKeepsRaster ==
    [][\A t \in Topics :
          (/\ ~IsNone(renderables[t])
           /\ LastCall(ops', "handleOccupancyGrid", t)
           /\ Rejected(ops'))
          => /\ ~IsNone(renderables'[t])
             /\ Get(renderables'[t]).texture = Get(renderables[t]).texture
             /\ TextureOf(renderables', textures', t)
                    = TextureOf(renderables, textures, t)
             /\ ~Has(ops', "updateTexture")
             /\ ~Has(ops', "createTexture")
             /\ ~Has(ops', "dispose")]_vars

\* a rejected message has just been handled on a topic that had a raster of
\* at least one cell
C1_Witness ==
    /\ LastCall(ops, "handleOccupancyGrid", "A")
    /\ Rejected(ops)
    /\ ~Has(ops, "createTexture")
    /\ Len(TextureOf(renderables, textures, "A").data) >= 4
    /\ ~TextureOf(renderables, textures, "A").disposed

\* C2: a message that fails the shape validation leaves the whole renderable
\* of its topic as it was, so that the grid map it holds, and the pose, frame
\* id, message time and receive time, are those of the last message that
\* passed the validation.
C2_RejectedMessageKeepsRenderable ==
    [][\A t \in Topics :
          (/\ ~IsNone(renderables[t])
           /\ LastCall(ops', "handleOccupancyGrid", t)
           /\ Rejected(ops'))
          => renderables'[t] = renderables[t]]_vars

\* C3: a message that fails the shape validation, arriving on a topic without
\* a renderable, creates none, and no texture.
C3_RejectedMessageKeepsAbsent ==
    [][\A t \in Topics :
          (/\ IsNone(renderables[t])
           /\ LastCall(ops', "handleOccupancyGrid", t)
           /\ Rejected(ops'))
          => /\ IsNone(renderables'[t])
             /\ textures' = textures]_vars

\* the textures of a topic
TexturesOf(texs, t) == {<<i, texs[i]>> : i \in {j \in DOMAIN texs : j[1] = t}}

\* C4: a message that fails the shape validation on one topic changes nothing
\* of another topic: not its renderable (settings, material flags, grid map),
\* not its textures, not its saved settings, not its error.
C4_RejectedMessageIsContained ==
    [][\A a \in Topics : \A b \in Topics \ {a} :
          (LastCall(ops', "handleOccupancyGrid", a) /\ Rejected(ops'))
          => /\ renderables'[b] = renderables[b]
             /\ TexturesOf(textures', b) = TexturesOf(textures, b)
             /\ config'[b] = config[b]
             /\ errors'[b] = errors[b]]_vars

\* a message was just rejected on A while B has a raster, half-transparent
\* settings and no error
C4_Witness ==
    /\ LastCall(ops, "handleOccupancyGrid", "A")
    /\ Rejected(ops)
    /\ ~IsNone(renderables["B"])
    /\ Len(TextureOf(renderables, textures, "B").data) >= 4
    /\ Get(renderables["B"]).material.transparent
    /\ IsNone(errors["B"])

\* the grid map a renderable holds, and whether its raster is the recoloring
\* of every cell with the renderable's settings
GridOf(rs, t) == Get(rs[t]).gridMap

FullyRecolored(rs, texs, t) ==
    LET data == TextureOf(rs, texs, t).data
        colors == LinearColors(Get(rs[t]).settings)
    IN  \A k \in 1..Len(data) :
            data[k] = RampByte(ElementToInt32(GridOf(rs, t).data, (k - 1) \div 4),
                               ((k - 1) % 4) + 1, colors)

\* a message was handled on topic t up to the recoloring of its texture
Accepted(o, t) ==
    LastCall(o, "handleOccupancyGrid", t) /\ ~Rejected(o) /\ Has(o, "updateTexture")

\* C5: after a message that passes the validation, the raster of the topic
\* has width * height * 4 bytes and the texture's width and height are those
\* of the message's grid (length_y / resolution and length_x / resolution).
C5_RasterHasGridSize ==
    \A t \in Topics :
        Accepted(ops, t)
        => LET texture == TextureOf(renderables, textures, t)
               gridMap == GridOf(renderables, t)
           IN  /\ texture.width = NumDiv(gridMap.info.length_y, gridMap.info.resolution)
               /\ texture.height = NumDiv(gridMap.info.length_x, gridMap.info.resolution)
               /\ Fin(Len(texture.data), 1)
                      = NumMul(NumMul(texture.width, texture.height), Fin(4, 1))

\* C6: the texture of a topic is disposed of or replaced only by an update
\* whose grid has another width or height than the texture; an update of the
\* same width and height (that of a message without info included) writes
\* into the texture the topic has.
C6_RegeneratedOnlyOnResize ==
    [][\A t \in Topics :
          (/\ ~IsNone(renderables[t])
           /\ \/ LastCall(ops', "handleOccupancyGrid", t)
              \/ LastCall(ops', "handleSettingsAction", t)
           /\ Has(ops', "dispose") \/ Has(ops', "createTexture"))
          => <<GridWidth(GridOf(renderables', t)), GridHeight(GridOf(renderables', t))>>
                 # <<TextureOf(renderables, textures, t).width,
                      TextureOf(renderables, textures, t).height>>]_vars

\* the textures of a topic that were not disposed of
Unreleased(texs, t) == {i \in DOMAIN texs : i[1] = t /\ ~texs[i].disposed}

\* C7: a message that changes the dimensions of a topic's grid leaves the topic
\* with a texture of the new dimensions whose every byte was written by the
\* recoloring of this message, the texture it replaces being disposed of: a
\* topic never has more than one texture that was not disposed of, and has
\* none once its renderable is removed.
C7_ResizeRefillsAndReleases ==
    \A t \in Topics :
        /\ Cardinality(Unreleased(textures, t)) <= 1
        /\ IsNone(renderables[t]) => Unreleased(textures, t) = {}
        /\ (Accepted(ops, t) /\ Has(ops, "dispose") /\ Has(ops, "createTexture"))
           => /\ Unreleased(textures, t) = {Get(renderables[t]).texture}
              /\ TextureOf(renderables, textures, t).width
                     = GridWidth(GridOf(renderables, t))
              /\ TextureOf(renderables, textures, t).height
                     = GridHeight(GridOf(renderables, t))
              /\ Len(TextureOf(renderables, textures, t).data)
                     = ToIndex(NumMul(GridSize(GridOf(renderables, t)), Fin(4, 1)))
              /\ FullyRecolored(renderables, textures, t)

\* a message has just replaced a texture by one of two cells, the first
\* texture of the topic being disposed of
C7_Witness ==
    /\ Accepted(ops, "A")
    /\ ops[2] = <<"dispose">>
    /\ Has(ops, "createTexture")
    /\ Len(TextureOf(renderables, textures, "A").data) = 8
    /\ Cardinality({i \in DOMAIN textures : i[1] = "A" /\ textures[i].disposed}) = 1

\* C8: when a handler replaces a texture, the new one is created before the
\* old one is disposed of: after a dispose the call neither creates a texture
\* nor fails to.
C8_AllocateBeforeRelease ==
    \A i \in 2..Len(ops) : \A j \in 2..Len(ops) :
        (ops[i][1] = "dispose" /\ ops[j][1] \in {"createTexture", "throw"})
        => j < i

\* C9: a settings update of a topic that has a renderable recolors every cell
\* of the raster from the grid map the renderable holds and the new settings,
\* and adds no error.
C9_SettingsUpdateRecolors ==
    [][\A t \in Topics :
          (/\ ~IsNone(renderables[t])
           /\ LastCall(ops', "handleSettingsAction", t)
           /\ Len(ops') > 1)
          => /\ ~Rejected(ops')
             /\ ~Has(ops', "throw")
             /\ Has(ops', "updateTexture")
             /\ FullyRecolored(renderables', textures', t)]_vars

\* C10: a settings update that follows a settings update of the same topic
\* and saves the settings that are saved already leaves the bytes of the
\* raster as they are, and disposes of no texture and creates none.
C10_SettingsUpdateIsIdempotent ==
    [][\A t \in Topics :
          (/\ ~IsNone(renderables[t])
           /\ LastCall(ops, "handleSettingsAction", t) /\ Len(ops) > 1
           /\ LastCall(ops', "handleSettingsAction", t) /\ Len(ops') > 1
           /\ config' = config)
          => /\ TextureOf(renderables', textures', t).data
                    = TextureOf(renderables, textures, t).data
             /\ ~Has(ops', "dispose")
             /\ ~Has(ops', "createTexture")]_vars

\* at least one of the four colors of the settings has an alpha below 1
NeedsTransparency(settings) == \E f \in ColorFields : settings[f].a2 < 2

\* C11: the material of a renderable blends (transparent) and does not write
\* the depth exactly when one of the four colors of the renderable's settings
\* has an alpha below 1, in every reachable state; and a settings update that
\* leaves that condition as it was neither changes the flags nor marks the
\* material for an update.
C11_FlagsFollowTransparency ==
    /\ [](\A t \in Topics :
            ~IsNone(renderables[t])
            => /\ Get(renderables[t]).material.transparent
                      = NeedsTransparency(Get(renderables[t]).settings)
               /\ Get(renderables[t]).material.depthWrite
                      = ~NeedsTransparency(Get(renderables[t]).settings))
    /\ [][\A t \in Topics :
            (/\ ~IsNone(renderables[t]) /\ ~IsNone(renderables'[t])
             /\ LastCall(ops', "handleSettingsAction", t)
             /\ NeedsTransparency(Get(renderables'[t]).settings)
                    = NeedsTransparency(Get(renderables[t]).settings))
            => /\ Get(renderables'[t]).material.transparent
                      = Get(renderables[t]).material.transparent
               /\ Get(renderables'[t]).material.depthWrite
                      = Get(renderables[t]).material.depthWrite
               /\ ~Has(ops', "material.needsUpdate")]_vars

\* a settings update has just set the last color of alpha 0.5 back to alpha 1
\* and turned the blending off again, the unknown color having been edited
C11_Witness ==
    /\ ~IsNone(renderables["A"])
    /\ LastCall(ops, "handleSettingsAction", "A")
    /\ Has(ops, "material.needsUpdate")
    /\ ~Get(renderables["A"]).material.transparent
    /\ Get(renderables["A"]).material.depthWrite
    /\ ~IsNone(config["A"].unknownColor)
    /\ ~IsNone(config["A"].invalidColor)

\* the cell SpecRamp has written: its value, its bytes, and the linear colors
\* of the settings it was written with
CellWritten == Len(ops) = 1 /\ ops[1][1] = "updateTexture"
CellValue == ops[1][2]
CellBytes == textures[<<"A", 1>>].data
CellColors == LinearColors(MergeSettings(config["A"]))
Interpolated100(c) ==
    CellColors.tempMinColor[Channels[c]] * 100
    + (CellColors.tempMaxColor[Channels[c]] - CellColors.tempMinColor[Channels[c]])
      * CellValue

\* C12: the ramp gives every cell value one class: -1 the unknown color;
\* 0..99 the interpolation of each channel between the min and the max color
\* at value / 100, as the byte next to it (the min color at 0, the midpoint at
\* 50); 100 the bytes (0, 0, 0, 0) whatever the max color; every other value
\* the invalid color.
C12_RampClasses ==
    CellWritten
    => \A c \in 1..4 :
        LET byte == CellBytes[c]
            ch == Channels[c]
        IN  /\ CellValue = -1 => byte = CellColors.tempUnknownColor[ch]
            /\ (CellValue >= 0 /\ CellValue <= 99)
               => /\ byte * 100 - Interpolated100(c) < 100
                  /\ Interpolated100(c) - byte * 100 < 100
                  /\ Interpolated100(c) % 100 = 0 => byte * 100 = Interpolated100(c)
            /\ CellValue = 100 => byte = 0
            /\ (CellValue < -1 \/ CellValue > 100)
               => byte = CellColors.tempInvalidColor[ch]

\* the value 100 was written with a white max color
C12_Witness ==
    /\ CellWritten
    /\ CellValue = 100
    /\ config["A"].maxColor = Some(DEFAULT_MIN_COLOR_STR)
    /\ CellBytes = <<0, 0, 0, 0>>

\* C13: for a cell value in 0..99 every channel of the cell holds the
\* interpolation min + (max - min) * value / 100 truncated to an integer.
C13_InterpolationIsTruncated ==
    (CellWritten /\ CellValue >= 0 /\ CellValue <= 99)
    => \A c \in 1..4 : CellBytes[c] = Interpolated100(c) \div 100

\* C14: the decoding of a message raises no error, whichever fields of the
\* message are absent: no call of the message handler ends in a TypeError.
C14_DecoderNeverFails ==
    \A i \in 2..Len(ops) : ~(ops[i][1] = "throw" /\ ops[i][2] = "TypeError")

\* the validation as the specification words it: a layer fails when it declares
\* fewer than 2 dimensions or when the sum of the sizes it declares differs
\* from width * height
RECURSIVE SumOfSizes(_)
SumOfSizes(dim) ==
    IF dim = <<>> THEN 0 ELSE dim[1].size + SumOfSizes(Tail(dim))

InsufficientDimensions(layer) == Len(layer.layout.dim) < 2
SizeMismatch(layer, gridMap) ==
    Fin(SumOfSizes(layer.layout.dim), 1)
        # NumMul(NumDiv(gridMap.info.length_y, gridMap.info.resolution),
                 NumDiv(gridMap.info.length_x, gridMap.info.resolution))
LayerFails(layer, gridMap) ==
    InsufficientDimensions(layer) \/ SizeMismatch(layer, gridMap)
FailingLayers(gridMap) ==
    {i \in 1..Len(gridMap.data) : LayerFails(gridMap.data[i], gridMap)}
FirstFailingLayer(gridMap) ==
    gridMap.data[CHOOSE i \in FailingLayers(gridMap) :
                     \A j \in FailingLayers(gridMap) : i <= j]
Diagnostics(o) == {i \in 2..Len(o) : o[i][1] = "addToTopic"}

\* C16: a message is accepted (no error is added and the texture is recolored)
\* exactly when none of its layers fails; otherwise exactly one error is added,
\* that of the first failing layer: the wrong number of dimensions when that
\* layer declares fewer than 2, the size mismatch otherwise.
C16_FirstFailingLayerDecides ==
    \A t \in Topics :
        (/\ LastCall(ops, "handleOccupancyGrid", t)
         /\ ~Has(ops, "throw")
         /\ ~IsNone(renderables[t]))
        => LET gridMap == GridOf(renderables, t)
           IN  IF FailingLayers(gridMap) = {}
               THEN Diagnostics(ops) = {} /\ Has(ops, "updateTexture")
               ELSE /\ Cardinality(Diagnostics(ops)) = 1
                    /\ ~Has(ops, "updateTexture")
                    /\ \A i \in Diagnostics(ops) :
                         /\ errors[t] = Some(ops[i][2])
                         /\ ops[i][2] =
                              IF InsufficientDimensions(FirstFailingLayer(gridMap))
                              THEN "GridMap layer is has the wrong number of dimensions"
                              ELSE "GridMap layer is not equal to width * height"

\* a message of 2 x 2 cells whose first layer has a wrong size and whose
\* second layer has a single dimension was rejected for the size
C16_Witness ==
    /\ LastCall(ops, "handleOccupancyGrid", "A")
    /\ ~IsNone(renderables["A"])
    /\ GridOf(renderables, "A").info.length_x = 2
    /\ Len(GridOf(renderables, "A").data) = 2
    /\ Len(GridOf(renderables, "A").data[1].layout.dim) = 2
    /\ Len(GridOf(renderables, "A").data[2].layout.dim) = 1
    /\ errors["A"] = Some("GridMap layer is not equal to width * height")
    /\ Cardinality(Diagnostics(ops)) = 1

\* C15: a message none of whose layers fails is processed whatever was
\* rejected on the topic before it: the call adds no error, recolors every
\* cell of the raster from the message, and sets the scale to (resolution *
\* width, resolution * height) and the pose to the message's.
C15_RejectionIsNotSticky ==
    \A t \in Topics :
        (/\ LastCall(ops, "handleOccupancyGrid", t)
         /\ ~Has(ops, "throw")
         /\ ~IsNone(renderables[t])
         /\ FailingLayers(GridOf(renderables, t)) = {})
        => LET gridMap == GridOf(renderables, t)
               resolution == Fin(gridMap.info.resolution, 1)
               width == NumDiv(gridMap.info.length_y, gridMap.info.resolution)
               height == NumDiv(gridMap.info.length_x, gridMap.info.resolution)
           IN  /\ ~Rejected(ops)
               /\ Has(ops, "updateTexture")
               /\ TextureOf(renderables, textures, t).width = width
               /\ TextureOf(renderables, textures, t).height = height
               /\ FullyRecolored(renderables, textures, t)
               /\ Get(renderables[t]).scale
                      = <<NumMul(resolution, width), NumMul(resolution, height)>>
               /\ Get(renderables[t]).pose = gridMap.info.pose

\* a message of two cells was accepted on a topic that has an error from a
\* message rejected before
C15_Witness ==
    /\ Accepted(ops, "A")
    /\ ~IsNone(errors["A"])
    /\ Len(TextureOf(renderables, textures, "A").data) = 8
    /\ Get(renderables["A"]).scale = <<Fin(2, 1), Fin(1, 1)>>

\* C17: after a message was accepted, every cell of the raster that the first
\* layer of the message has a value for holds the ramp color of that value.
C17_CellsFollowFirstLayer ==
    \A t \in Topics :
        (Accepted(ops, t) /\ Len(GridOf(renderables, t).data) >= 1)
        => LET layer == GridOf(renderables, t).data[1]
               data == TextureOf(renderables, textures, t).data
               colors == LinearColors(Get(renderables[t]).settings)
           IN  \A k \in 1..Len(data) :
                   (k - 1) \div 4 < Len(layer.data)
                   => data[k] = RampByte(layer.data[((k - 1) \div 4) + 1],
                                         ((k - 1) % 4) + 1, colors)

\* C18: the material and the picking material of a renderable both sample the
\* renderable's current texture, which was not disposed of.
C18_MaterialsSampleCurrentTexture ==
    \A t \in Topics :
        ~IsNone(renderables[t])
        => /\ Get(renderables[t]).material.map = Get(renderables[t]).texture
           /\ Get(renderables[t]).pickingMaterial.map = Get(renderables[t]).texture
           /\ ~TextureOf(renderables, textures, t).disposed

\* C19: the error of a topic changes only in a call that adds an error to that
\* topic, and a topic that has an error has one in every later state, also
\* after a message of the topic was accepted and recolored.
C19_ErrorIsNeverCleared ==
    [][\A t \in Topics :
          /\ ~IsNone(errors[t]) => ~IsNone(errors'[t])
          /\ errors'[t] # errors[t]
             => /\ Len(ops') > 0 /\ ops'[1][2] = t
                /\ \E i \in Diagnostics(ops') : errors'[t] = Some(ops'[i][2])]_vars

\* a topic whose message was rejected for the number of dimensions of a layer
\* has since accepted a message of one cell, and still has the error
C19_Witness ==
    /\ Accepted(ops, "A")
    /\ errors["A"] = Some("GridMap layer is has the wrong number of dimensions")
    /\ Len(TextureOf(renderables, textures, "A").data) = 4
    /\ FullyRecolored(renderables, textures, "A")

====
